---- MODULE Spec2Model ----
(***************************************************************************)
(* PageRank (src/pagerank.py): transition_model, sample_pagerank and       *)
(* iterate_pagerank.                                                       *)
(*                                                                         *)
(* Pages are the integers 1..N.  A corpus is a function from its pages to  *)
(* the set of pages each one links to (crawl removes self-links and links  *)
(* that leave the corpus).  Python floats are modelled by exact rationals  *)
(* <<numerator, denominator>> in lowest terms with a positive denominator, *)
(* so "sums to 1" means exactly 1.                                         *)
(***************************************************************************)
EXTENDS Integers, FiniteSets, Sequences, TLC

\* ------------------------------------------------------------------------
\* Bounds of the model
\* ------------------------------------------------------------------------
MaxPages == 3        \* corpora have 0..MaxPages pages
MaxSamples == 2      \* sample counts n range over -1..MaxSamples
MaxDen == 1048576    \* a pass starts only while every rank's denominator is at most this

\* ------------------------------------------------------------------------
\* Exact rational arithmetic (the float operators of the source)
\* ------------------------------------------------------------------------
\* Every operation is a function: its arguments are values when its body is
\* evaluated.
Q == Int \X Int

Abs(a) == IF a < 0 THEN -a ELSE a

GCD[a \in Nat, b \in Nat] == IF b = 0 THEN a ELSE GCD[b, a % b]

\* a/b in lowest terms, b # 0
Rat[a \in Int, b \in Int] ==
    LET g == GCD[Abs(a), Abs(b)]
        s == IF b < 0 THEN -1 ELSE 1
    IN  <<s * (a \div g), s * (b \div g)>>

Zero == <<0, 1>>
One == <<1, 1>>

RAdd[x \in Q, y \in Q] ==
    LET l == (x[2] \div GCD[x[2], y[2]]) * y[2]
    IN  Rat[x[1] * (l \div x[2]) + y[1] * (l \div y[2]), l]

RNeg[x \in Q] == <<-x[1], x[2]>>
RSub[x \in Q, y \in Q] == RAdd[x, RNeg[y]]
RMul[x \in Q, y \in Q] == Rat[x[1] * y[1], x[2] * y[2]]
\* x / y, y # Zero (Python raises ZeroDivisionError otherwise; callers test first)
RDiv[x \in Q, y \in Q] == Rat[x[1] * y[2], x[2] * y[1]]
RLe(x, y) == x[1] * y[2] <= y[1] * x[2]

RECURSIVE RSum(_, _)
\* sum of f over the finite set S
RSum(f, S) ==
    IF S = {} THEN Zero
    ELSE LET p == CHOOSE p \in S : TRUE
         IN  RAdd[f[p], RSum(f, S \ {p})]

\* ------------------------------------------------------------------------
\* Inputs
\* ------------------------------------------------------------------------
\* graphs produced by crawl: no self-links, no links out of the corpus
CorporaOf(N) == {c \in [1..N -> SUBSET (1..N)] : \A p \in 1..N : p \notin c[p]}
Corpora == UNION {CorporaOf(N) : N \in 0..MaxPages}

\* damping factors tried: -1/2 (outside [0,1]), 0, 1/2, 1
Dampings == {<<-1, 2>>, <<0, 1>>, <<1, 2>>, <<1, 1>>}
SampleCounts == -1..MaxSamples

ValidDamping(d) == RLe(Zero, d) /\ RLe(d, One)
Dangling(c, p) == c[p] = {}

\* ------------------------------------------------------------------------
\* State
\* ------------------------------------------------------------------------
VARIABLES
    call,            \* which function is being run
    corpus,          \* argument corpus
    damping_factor,  \* argument damping_factor
    n,               \* argument n of sample_pagerank (0 for the other calls)
    pc,              \* position in the running function
    page,            \* transition_model's argument / sample_pagerank's current page
    i,               \* sample_pagerank's loop index
    rank,            \* working (and returned) rank mapping
    old_rank,        \* iterate_pagerank's snapshot of the previous pass
    reverse_corpus,  \* iterate_pagerank's origin pages of every page
    changes,         \* iterate_pagerank's convergence flag
    safety,          \* iterate_pagerank's safety counter
    todo,            \* pages the running pass of iterate_pagerank has yet to visit
    result,          \* mapping returned by transition_model
    error            \* exception raised, "" if none

vars == <<call, corpus, damping_factor, n, pc, page, i, rank, old_rank,
          reverse_corpus, changes, safety, todo, result, error>>

Pages == DOMAIN corpus
NPages == Cardinality(DOMAIN corpus)
Empty == << >>


\* ------------------------------------------------------------------------
\* transition_model
\* ------------------------------------------------------------------------
\* probabilities[page] = (1-damping_factor)/len(corpus)
BaseTerm(c, d) == RDiv[RSub[One, d], <<Cardinality(DOMAIN c), 1>>]

\* probabilities[page] += len(linked)/damping_factor
LinkTerm(c, p, d) == RDiv[<<Cardinality(c[p]), 1>>, d]

\* the division of LinkTerm raises ZeroDivisionError: it is evaluated as soon
\* as some page of the corpus is in linked
TransitionRaises(c, p, d) == d = Zero /\ c[p] # {}

\* the mapping returned when nothing is raised
transition_model(c, p, d) ==
    [q \in DOMAIN c |->
        IF q \in c[p] THEN RAdd[BaseTerm(c, d), LinkTerm(c, p, d)]
        ELSE BaseTerm(c, d)]

InitT ==
    /\ call = "transition"
    /\ corpus \in Corpora
    /\ page \in DOMAIN corpus
    /\ damping_factor \in Dampings
    /\ n = 0 /\ i = 0
    /\ pc = "call"
    /\ rank = Empty /\ old_rank = Empty /\ reverse_corpus = Empty
    /\ changes = FALSE /\ safety = 0 /\ todo = {}
    /\ result = Empty /\ error = ""

TransitionModel ==
    /\ call = "transition" /\ pc = "call"
    /\ IF TransitionRaises(corpus, page, damping_factor)
       THEN /\ pc' = "error"
            /\ error' = "ZeroDivisionError"
            /\ result' = result
       ELSE /\ pc' = "done"
            /\ error' = error
            /\ result' = transition_model(corpus, page, damping_factor)
    /\ UNCHANGED <<call, corpus, damping_factor, n, page, i, rank, old_rank,
                   reverse_corpus, changes, safety, todo>>

NextT == TransitionModel
SpecT == InitT /\ [][NextT]_vars

\* ------------------------------------------------------------------------
\* sample_pagerank
\* ------------------------------------------------------------------------
\* rank[page] = rank.get(page, 0) + 1
Visit(rk, q) ==
    [p \in DOMAIN rk \cup {q} |->
        IF p = q THEN RAdd[IF q \in DOMAIN rk THEN rk[q] ELSE Zero, One]
        ELSE rk[p]]

\* for page in rank: rank[page] /= n
Normalize(rk, k) == [p \in DOMAIN rk |-> RDiv[rk[p], <<k, 1>>]]

\* a sampler that also records a visit to the starting page
InitialCountsWithStart(p) == [q \in {p} |-> One]

\* rank = {} : no visit is recorded for the starting page
InitialCounts(p) == Empty

\* random.choices(population, weights): the pages a draw can return.  With
\* non-negative weights of positive total these are the pages of positive
\* weight; with a negative weight the cumulative weights are not sorted and
\* the bisection may land on any page.
Drawable(m) ==
    IF \A q \in DOMAIN m : m[q][1] >= 0
    THEN {q \in DOMAIN m : m[q][1] > 0}
    ELSE DOMAIN m

InitS ==
    /\ call = "sample"
    /\ corpus \in Corpora
    /\ damping_factor \in Dampings
    /\ n \in SampleCounts
    /\ page = 0 /\ i = 0
    /\ pc = "call"
    /\ rank = Empty /\ old_rank = Empty /\ reverse_corpus = Empty
    /\ changes = FALSE /\ safety = 0 /\ todo = {}
    /\ result = Empty /\ error = ""

\* lines 86-87: random.choice raises IndexError on an empty list
SampleStart ==
    /\ call = "sample" /\ pc = "call"
    /\ \/ /\ Pages = {}
          /\ pc' = "error" /\ error' = "IndexError"
          /\ UNCHANGED <<page, rank>>
       \/ /\ \E p \in Pages :
                /\ page' = p
                /\ rank' = InitialCounts(p)
          /\ pc' = "sample_loop"
          /\ error' = error
    /\ UNCHANGED <<call, corpus, damping_factor, n, i, old_rank,
                   reverse_corpus, changes, safety, todo, result>>

\* lines 88-93: one iteration of the sampling loop
SampleDraw ==
    /\ call = "sample" /\ pc = "sample_loop" /\ i < n
    /\ IF TransitionRaises(corpus, page, damping_factor)
       THEN /\ pc' = "error" /\ error' = "ZeroDivisionError"
            /\ UNCHANGED <<page, i, rank>>
       ELSE LET m == transition_model(corpus, page, damping_factor)
                total == RSum(m, DOMAIN m)
            IN  IF total[1] <= 0
                THEN \* CPython >= 3.9 raises ValueError("Total of weights must be
                     \* greater than zero"); older interpreters bisect anyway
                     \/ /\ pc' = "error" /\ error' = "ValueError"
                        /\ UNCHANGED <<page, i, rank>>
                     \/ \E q \in DOMAIN m :
                           /\ page' = q
                           /\ rank' = Visit(rank, q)
                           /\ i' = i + 1
                           /\ UNCHANGED <<pc, error>>
                ELSE \E q \in Drawable(m) :
                           /\ page' = q
                           /\ rank' = Visit(rank, q)
                           /\ i' = i + 1
                           /\ UNCHANGED <<pc, error>>
    /\ UNCHANGED <<call, corpus, damping_factor, n, old_rank,
                   reverse_corpus, changes, safety, todo, result>>

\* lines 95-98: range(n) is exhausted (at once when n <= 0)
SampleReturn ==
    /\ call = "sample" /\ pc = "sample_loop" /\ i >= n
    /\ rank' = Normalize(rank, n)
    /\ pc' = "done"
    /\ UNCHANGED <<call, corpus, damping_factor, n, page, i, old_rank,
                   reverse_corpus, changes, safety, todo, result, error>>

NextS == SampleStart \/ SampleDraw \/ SampleReturn
SpecS == InitS /\ [][NextS]_vars

\* ------------------------------------------------------------------------
\* iterate_pagerank
\* ------------------------------------------------------------------------
SafetyCap == 1000
Tolerance == 1000    \* the convergence threshold is 1/Tolerance = 0.001

\* line 111: rank = {page: 1/len(corpus) for page in corpus}
InitialRank(c) == [p \in DOMAIN c |-> Rat[1, Cardinality(DOMAIN c)]]

\* lines 113-123: the pages that lead to q; a page without links is entered
\* as an origin of every page of the corpus
ReverseCorpus(c) ==
    [q \in DOMAIN c |-> {p \in DOMAIN c : c[p] = {} \/ q \in c[p]}]

\* line 144: old_rank[link] / len(corpus[link]) raises ZeroDivisionError
OriginRaises(c, rev, q) == \E link \in rev[q] : Cardinality(c[link]) = 0

\* an origin's rank passed on whole instead of split among its links
OriginShareUndivided(c, old, link) == old[link]

\* line 144: old_rank[link] / len(corpus[link])
OriginShare(c, old, link) == RDiv[old[link], <<Cardinality(c[link]), 1>>]

RECURSIVE ProbOrigins(_, _, _)
\* lines 141-144: prob_origins accumulated over the origin pages S
ProbOrigins(c, old, S) ==
    IF S = {} THEN Zero
    ELSE LET link == CHOOSE link \in S : TRUE
         IN  RAdd[OriginShare(c, old, link), ProbOrigins(c, old, S \ {link})]

\* a Gauss-Seidel update: the origins are read from the mapping being written
NewRankInPlace(c, d, rev, rk, old, q) ==
    RAdd[BaseTerm(c, d), RMul[d, ProbOrigins(c, rk, rev[q])]]

\* lines 137-145: the value stored in rank[q]; rk is the mapping being
\* written in this pass, old the snapshot of the previous pass
NewRank(c, d, rev, rk, old, q) ==
    RAdd[BaseTerm(c, d), RMul[d, ProbOrigins(c, old, rev[q])]]

\* abs(x) > 0.001
ExceedsTolerance(x) == Abs(x[1]) > x[2] \div Tolerance

\* a flag assigned by every page, so that the last page visited decides
NewChangesOverwritten(ch, new, old) == ExceedsTolerance(RSub[new, old])

\* lines 146-147: changes after page q has been written
NewChanges(ch, new, old) ==
    IF ExceedsTolerance(RSub[new, old]) THEN TRUE ELSE ch

\* line 131: while changes or safety > 1000
LoopCondition(ch, sf) == ch \/ sf > SafetyCap

InitI ==
    /\ call = "iterate"
    /\ corpus \in Corpora
    /\ damping_factor \in Dampings
    /\ n = 0 /\ page = 0 /\ i = 0
    /\ pc = "call"
    /\ rank = Empty /\ old_rank = Empty /\ reverse_corpus = Empty
    /\ changes = FALSE /\ safety = 0 /\ todo = {}
    /\ result = Empty /\ error = ""

\* lines 111-133: initialisation up to the first test of the loop condition
IterInit ==
    /\ call = "iterate" /\ pc = "call"
    /\ rank' = InitialRank(corpus)
    /\ reverse_corpus' = ReverseCorpus(corpus)
    /\ old_rank' = InitialRank(corpus)
    /\ safety' = 0
    /\ IF LoopCondition(TRUE, 0)
       THEN pc' = "for" /\ changes' = FALSE /\ todo' = Pages
       ELSE pc' = "done" /\ changes' = TRUE /\ todo' = {}
    /\ UNCHANGED <<call, corpus, damping_factor, n, page, i, result, error>>

\* lines 135-147: the body of the for loop for page q.  The pages of a pass
\* are visited in the order of the dictionary, which the caller decides:
\* any page not yet visited in this pass may be the next one.
IterPage(q) ==
    /\ call = "iterate" /\ pc = "for" /\ q \in todo
    /\ \A p \in Pages : old_rank[p][2] <= MaxDen
    /\ IF OriginRaises(corpus, reverse_corpus, q)
       THEN /\ pc' = "error" /\ error' = "ZeroDivisionError"
            /\ UNCHANGED <<rank, changes, todo>>
       ELSE LET new == NewRank(corpus, damping_factor, reverse_corpus,
                               rank, old_rank, q)
            IN  /\ rank' = [rank EXCEPT ![q] = new]
                /\ changes' = NewChanges(changes, new, old_rank[q])
                /\ todo' = todo \ {q}
                /\ UNCHANGED <<pc, error>>
    /\ UNCHANGED <<call, corpus, damping_factor, n, page, i, old_rank,
                   reverse_corpus, safety, result>>

\* line 148 and the next test of line 131 (with lines 133 or 150)
IterEndPass ==
    /\ call = "iterate" /\ pc = "for" /\ todo = {}
    /\ old_rank' = rank
    /\ IF LoopCondition(changes, safety)
       THEN pc' = "for" /\ changes' = FALSE /\ todo' = Pages
       ELSE pc' = "done" /\ UNCHANGED <<changes, todo>>
    /\ UNCHANGED <<call, corpus, damping_factor, n, page, i, rank,
                   reverse_corpus, safety, result, error>>

NextI == (\E q \in Pages : IterPage(q)) \/ IterInit \/ IterEndPass
SpecI == InitI /\ [][NextI]_vars

\* ------------------------------------------------------------------------
\* The three entry points together
\* ------------------------------------------------------------------------
Init == InitT \/ InitS \/ InitI
Next == NextT \/ NextS \/ NextI
Spec == Init /\ [][Next]_vars

\* the interpreter keeps running the call until it returns or raises
FairSpecI == SpecI /\ WF_vars(NextI)

\* ------------------------------------------------------------------------
\* Properties of transition_model (checked under SpecT)
\* ------------------------------------------------------------------------
TransitionEnded == call = "transition" /\ pc # "call"

\* C1: for a valid corpus, page and damping factor in [0,1], transition_model
\* returns a mapping whose keys are exactly the pages of the corpus and whose
\* values sum to 1.
C1_TransitionIsDistribution ==
    (TransitionEnded /\ ValidDamping(damping_factor)) =>
        /\ pc = "done"
        /\ DOMAIN result = Pages
        /\ RSum(result, Pages) = One

\* (1 - d)/N + d/|links(current)| for the linked pages, (1 - d)/N for the others
LinkedProbability(q) ==
    IF q \in corpus[page]
    THEN RAdd[RDiv[RSub[One, damping_factor], <<NPages, 1>>],
              RDiv[damping_factor, <<Cardinality(corpus[page]), 1>>]]
    ELSE RDiv[RSub[One, damping_factor], <<NPages, 1>>]

\* C2: when the current page has an outbound link, every page p gets
\* (1 - d)/N + d/|links(current)| if p is linked from the current page and
\* (1 - d)/N otherwise.
C2_LinkTerm ==
    (TransitionEnded /\ ValidDamping(damping_factor) /\ corpus[page] # {}) =>
        /\ pc = "done"
        /\ \A q \in Pages : result[q] = LinkedProbability(q)

\* C3: when the current page is dangling, every page (the current one
\* included) gets probability 1/N.
C3_DanglingUniform ==
    (TransitionEnded /\ ValidDamping(damping_factor) /\ Dangling(corpus, page)) =>
        /\ pc = "done"
        /\ \A q \in Pages : result[q] = Rat[1, NPages]

\* ------------------------------------------------------------------------
\* Properties of iterate_pagerank (checked under SpecI and FairSpecI)
\* ------------------------------------------------------------------------
ValidIterate ==
    call = "iterate" /\ Pages # {} /\ ValidDamping(damping_factor)

\* C4: on every valid corpus the loop of iterate_pagerank stops: the call
\* eventually ends.
C4_AlwaysTerminates == <>(ValidIterate => pc \in {"done", "error"})

\* number of outbound links of p, or N when p is dangling
OutDegree(p) ==
    IF Dangling(corpus, p) THEN NPages ELSE Cardinality(corpus[p])

\* the pages whose rank flows to q, a dangling page flowing to every page
Origins(q) == {p \in Pages : Dangling(corpus, p) \/ q \in corpus[p]}

\* (1 - d)/N + d * sum over the origins p of q of old_rank[p]/OutDegree(p)
DanglingUpdate(q) ==
    RAdd[RDiv[RSub[One, damping_factor], <<NPages, 1>>],
         RMul[damping_factor,
              RSum([p \in Origins(q) |-> RDiv[old_rank[p], <<OutDegree(p), 1>>]],
                   Origins(q))]]

\* C5: on a corpus with a dangling page the solver raises nothing, and the
\* dangling page contributes old_rank/N to every page it is an origin of.
C5_DanglingDividesByN ==
    (ValidIterate /\ \E p \in Pages : Dangling(corpus, p)) =>
        /\ pc # "error"
        /\ pc = "for" => \A q \in Pages \ todo : rank[q] = DanglingUpdate(q)

Linkers(q) == {p \in Pages : q \in corpus[p]}

\* (1 - d)/N + d * sum over the pages p linking to q of old_rank[p]/|links(p)|
JacobiUpdate(q) ==
    RAdd[RDiv[RSub[One, damping_factor], <<NPages, 1>>],
         RMul[damping_factor,
              RSum([p \in Linkers(q) |->
                        RDiv[old_rank[p], <<Cardinality(corpus[p]), 1>>]],
                   Linkers(q))]]

\* C9: during a pass, whatever the order of the visits, every page already
\* visited holds the Jacobi update computed from the snapshot of the previous
\* pass, and every page not yet visited still holds its snapshot value.
C9_JacobiUpdate ==
    (call = "iterate" /\ pc = "for") =>
        /\ \A q \in Pages \ todo : rank[q] = JacobiUpdate(q)
        /\ \A q \in todo : rank[q] = old_rank[q]

C9_Witness ==
    /\ ValidIterate /\ pc = "for" /\ todo = {} /\ NPages = 3
    /\ old_rank # InitialRank(corpus)
    /\ \A q \in Pages : rank[q] # old_rank[q]

\* some page moved by more than 0.001 in the pass just completed
SomePageMoved ==
    \E q \in Pages : ExceedsTolerance(RSub[rank[q], old_rank[q]])

\* C10: at the end of a pass the loop runs another pass exactly when some
\* page's rank moved by more than 0.001 in that pass, and otherwise returns
\* the ranks of that pass unchanged.
C10_FreshConvergence ==
    [][(call = "iterate" /\ pc = "for" /\ todo = {}) =>
          /\ rank' = rank
          /\ (pc' = "for") <=> SomePageMoved
          /\ (pc' = "done") <=> ~SomePageMoved]_vars

C10_Witness ==
    /\ ValidIterate /\ pc = "done" /\ NPages = 3
    /\ old_rank # InitialRank(corpus)
    /\ \E p, q \in Pages : rank[p] # rank[q]

\* ------------------------------------------------------------------------
\* Properties of sample_pagerank (checked under SpecS)
\* ------------------------------------------------------------------------
ValidSample ==
    call = "sample" /\ Pages # {} /\ ValidDamping(damping_factor) /\ n >= 1

InvalidInput ==
    \/ call = "sample" /\ (n <= 0 \/ ~ValidDamping(damping_factor) \/ Pages = {})
    \/ call = "iterate" /\ (~ValidDamping(damping_factor) \/ Pages = {})

\* C8: a call with invalid input never returns a rank mapping.
C8_InvalidInputRaises == InvalidInput => pc # "done"

====
